---- MODULE Spec2Model ----
(***************************************************************************)
(* Model of the rm-bg scripts.                                             *)
(*                                                                         *)
(*   multi.py   process_batch and its __main__ block  (specification Spec) *)
(*   single.py  remove_background and its __main__ block                   *)
(*                                                  (specification         *)
(*                                                   SpecSingle)           *)
(*                                                                         *)
(* A file name is a sequence of one-character strings, so that             *)
(* str.lower, str.endswith and os.path.splitext are computed and not       *)
(* assumed.  The calls into PIL, rembg and the operating system are the    *)
(* environment: each either succeeds or raises, chosen nondeterministically.*)
(***************************************************************************)
EXTENDS Integers, Sequences, FiniteSets, TLC

\* ------------------------------------------------------------------ bounds
\* Largest number of entries of the input directory.
MaxFiles == 3
\* Largest number of remove_background runs against one log file.
MaxRuns == 2
\* Largest timestamp the clock reaches.
MaxClock == 1

\* ------------------------------------------------------------ string helpers
\* str.lower(), on the characters the model's file names use.
LowerChar(c) ==
    CASE c = "P" -> "p"
      [] c = "N" -> "n"
      [] c = "G" -> "g"
      [] c = "J" -> "j"
      [] OTHER -> c

Lower(s) == [i \in 1..Len(s) |-> LowerChar(s[i])]

\* str.endswith(suf)
EndsWith(s, suf) ==
    /\ Len(s) >= Len(suf)
    /\ SubSeq(s, Len(s) - Len(suf) + 1, Len(s)) = suf

EndsWithAny(s, sufs) == \E suf \in sufs : EndsWith(s, suf)

ExtPng == <<".", "p", "n", "g">>
ExtJpg == <<".", "j", "p", "g">>
ExtJpeg == <<".", "j", "p", "e", "g">>
ExtBmp == <<".", "b", "m", "p">>
ExtWebp == <<".", "w", "e", "b", "p">>

SUPPORTED_FORMATS == {ExtPng, ExtJpg, ExtJpeg, ExtBmp, ExtWebp}

\* Index of the last "." of p, 0 when there is none (str.rfind).
LastDot(p) ==
    LET dots == {i \in 1..Len(p) : p[i] = "."}
    IN IF dots = {} THEN 0 ELSE CHOOSE i \in dots : \A j \in dots : j <= i

\* os.path.splitext(p)[0] for a name without separators: the text before the
\* last dot, unless everything before that dot is dots (a leading-dot name).
SplitextRoot(p) ==
    LET d == LastDot(p)
    IN IF d > 0 /\ \E k \in 1..(d - 1) : p[k] # "."
       THEN SubSeq(p, 1, d - 1)
       ELSE p

\* dict.get(key, default)
Get(r, key, default) == IF key \in DOMAIN r THEN r[key] ELSE default

\* ------------------------------------------------------------ file names
NameAPng == <<"a">> \o ExtPng
NameAJpgUpper == <<"a", ".", "J", "P", "G">>
NameAJpeg == <<"a">> \o ExtJpeg
NameBBmp == <<"b">> \o ExtBmp
NameDotPng == ExtPng
NameATxt == <<"a", ".", "t", "x", "t">>

\* The names a directory entry may have.
NamePool == {NameAPng, NameAJpgUpper, NameAJpeg, NameBBmp, NameDotPng, NameATxt}

\* os.listdir: distinct names, in an order the operating system chooses.
Listings ==
    UNION {{s \in [1..n -> NamePool] : \A i, j \in 1..n : i # j => s[i] # s[j]}
           : n \in 0..MaxFiles}

\* str(e) of the exceptions PIL and rembg raise.
OpenError == "cannot identify image file"
SaveError == "cannot write output file"

PathKinds == {"absent", "dir", "file"}

NoResult == [pending |-> TRUE]
NoSummary == [written |-> FALSE]

VARIABLES
    \* ---- multi.py: arguments of process_batch and the file system
    inKind,           \* what input_folder names: absent, a directory, a file
    dirEntries,       \* os.listdir(input_folder), in listing order
    outputArg,        \* the output_folder argument: "None" or a path
    preserve_format,  \* the preserve_format argument
    outKind,          \* what the output path names on disk
    outFiles,         \* names of the image files in the output folder
    summary,          \* content of batch_metadata.json, NoSummary when absent
    summaryWrites,    \* number of times batch_metadata.json was written
    \* ---- multi.py: locals of process_batch
    pc,
    output_folder,
    image_files,
    idx,              \* position of the for loop in image_files
    successful,
    failed,
    processed_files,
    failed_files,
    events,           \* what the environment did for each attempted file
    result,           \* the value process_batch returned, NoResult before
    exitCode,         \* sys.exit status of the script, -1 while running
    unhandled,        \* an exception left the __main__ block uncaught
    \* ---- single.py
    folderKind,       \* what "nobdg-images" names on disk
    logKind,          \* processing_log.json: absent, json, corrupt
    log,              \* its parsed content when logKind = "json"
    runs,             \* number of remove_background calls so far
    sresult,          \* the value the last call returned
    sexit             \* exit status of the last script run, -1 before

fsVars == <<outKind, outFiles, summary, summaryWrites>>
batchVars == <<inKind, dirEntries, outputArg, preserve_format, outKind, outFiles,
               summary, summaryWrites, pc, output_folder, image_files, idx,
               successful, failed, processed_files, failed_files, events,
               result, exitCode, unhandled>>
singleVars == <<folderKind, logKind, log, runs, sresult, sexit>>
vars == <<batchVars, singleVars>>

\* ============================================================== multi.py

\* The validation skipped: every path taken to exist.
PathExistsAlways(kind) == TRUE

\* os.path.exists
PathExists(kind) == kind # "absent"

IsImageName(f) == EndsWithAny(Lower(f), SUPPORTED_FORMATS)

\* The filter with the .lower() forgotten.
IsImageNameCaseSensitive(f) == EndsWithAny(f, SUPPORTED_FORMATS)

ImageFilesCaseSensitive(entries) == SelectSeq(entries, IsImageNameCaseSensitive)

\* image_files = [f for f in os.listdir(...) if f.lower().endswith(...)]
ImageFiles(entries) == SelectSeq(entries, IsImageName)

\* The output name of one input file.
OutputName(filename, preserve) ==
    IF preserve /\ EndsWithAny(Lower(filename), {ExtJpg, ExtJpeg})
    THEN SplitextRoot(filename) \o ExtJpg
    ELSE SplitextRoot(filename) \o ExtPng

\* output_folder after the default is filled in; the timestamp of the default
\* name is not modelled, one name stands for batch_<timestamp>.
OutputFolderOf(arg) == IF arg = "None" THEN "batch_<timestamp>" ELSE arg

NotFoundResult ==
    [success |-> FALSE, error |-> "Input folder not found", run_folder |-> "None"]

\* The early return without the folder it created.
NoImagesResultNoFolder(folder) ==
    [success |-> FALSE, error |-> "No image files found", run_folder |-> "None",
     processed |-> 0, failed |-> 0]

NoImagesResult(folder) ==
    [success |-> FALSE, error |-> "No image files found", run_folder |-> folder,
     processed |-> 0, failed |-> 0]

\* processed_files.append({"input": filename, "output": output_name})
ProcessedAppend(pf, filename, output_name) ==
    Append(pf, [input |-> filename, output |-> output_name])

\* The except clause counting the failure without recording it.
FailedAppendForgotten(ff, filename, err) == ff

\* failed_files.append({"file": filename, "error": str(e)})
FailedAppend(ff, filename, err) ==
    Append(ff, [file |-> filename, error |-> err])

\* The except clause retrying the same file.
IdxAfterFailureRetry(i) == i

\* The except clause ending the loop (a break, or the try around the loop).
PcAfterFailureAbort(i, n) == "summary"

\* The for loop after an iteration that ended in the except clause: the next
\* file, or the code after the loop when the list is exhausted.
IdxAfterFailure(i) == i + 1

PcAfterFailure(i, n) == IF i + 1 > n THEN "summary" ELSE "loop"

PcAfterSuccess(i, n) == IF i + 1 > n THEN "summary" ELSE "loop"

\* The flag set when anything succeeded.
SuccessFlagAnyProcessed(s, f) == s > 0

\* "success": failed == 0
SuccessFlag(s, f) == f = 0

\* The metadata dict; timestamp, input_folder and output_quality are echoes
\* of the call and are left out.
Metadata ==
    [run_folder |-> output_folder,
     total_processed |-> successful,
     total_failed |-> failed,
     total_images |-> Len(image_files),
     preserve_format |-> preserve_format,
     processed_files |-> processed_files,
     failed_files |-> failed_files,
     success |-> SuccessFlag(successful, failed)]

InitSingleIdle ==
    /\ folderKind = "absent"
    /\ logKind = "absent"
    /\ log = [none |-> TRUE]
    /\ runs = 0
    /\ sresult = NoResult
    /\ sexit = -1

Init ==
    /\ inKind \in PathKinds
    /\ dirEntries \in (IF inKind = "dir" THEN Listings ELSE {<<>>})
    /\ outputArg \in {"None", "out"}
    /\ preserve_format \in BOOLEAN
    /\ outKind \in PathKinds
    /\ outFiles = {}
    /\ summary = NoSummary
    /\ summaryWrites = 0
    /\ pc = "start"
    /\ output_folder = outputArg
    /\ image_files = <<>>
    /\ idx = 1
    /\ successful = 0
    /\ failed = 0
    /\ processed_files = <<>>
    /\ failed_files = <<>>
    /\ events = <<>>
    /\ result = NoResult
    /\ exitCode = -1
    /\ unhandled = FALSE
    /\ InitSingleIdle

\* Lines 36-38: the input folder is validated first.
Validate ==
    /\ pc = "start"
    /\ IF ~PathExists(inKind)
       THEN /\ result' = NotFoundResult
            /\ pc' = "returned"
       ELSE /\ pc' = "mkout"
            /\ UNCHANGED result
    /\ UNCHANGED <<inKind, dirEntries, outputArg, preserve_format, fsVars,
                   output_folder, image_files, idx, successful, failed,
                   processed_files, failed_files, events, exitCode, unhandled>>
    /\ UNCHANGED singleVars

\* Lines 41-47: the default name, then os.makedirs when the path is absent.
\* os.makedirs creates the directory or raises (no permission, read-only
\* medium); the exception is not caught in process_batch.
MakeOutput ==
    /\ pc = "mkout"
    /\ output_folder' = OutputFolderOf(outputArg)
    /\ IF ~PathExists(outKind)
       THEN \E ok \in BOOLEAN :
               IF ok
               THEN outKind' = "dir" /\ pc' = "list"
               ELSE outKind' = outKind /\ pc' = "raised"
       ELSE outKind' = outKind /\ pc' = "list"
    /\ UNCHANGED <<inKind, dirEntries, outputArg, preserve_format, outFiles,
                   summary, summaryWrites, image_files, idx, successful, failed,
                   processed_files, failed_files, events, result, exitCode,
                   unhandled>>
    /\ UNCHANGED singleVars

\* Lines 50-62: os.listdir raises NotADirectoryError when input_folder is a
\* file; an empty selection returns at once; otherwise the counters start.
ListImages ==
    /\ pc = "list"
    /\ IF inKind # "dir"
       THEN /\ pc' = "raised"
            /\ UNCHANGED <<image_files, result>>
       ELSE /\ image_files' = ImageFiles(dirEntries)
            /\ IF Len(image_files') = 0
               THEN /\ result' = NoImagesResult(output_folder)
                    /\ pc' = "returned"
               ELSE /\ pc' = "loop"
                    /\ UNCHANGED result
    /\ idx' = 1
    /\ successful' = 0
    /\ failed' = 0
    /\ processed_files' = <<>>
    /\ failed_files' = <<>>
    /\ UNCHANGED <<inKind, dirEntries, outputArg, preserve_format, fsVars,
                   output_folder, events, exitCode, unhandled>>
    /\ UNCHANGED singleVars

\* Lines 65-88: one iteration in which open, remove and save all succeed.
\* The save needs the output path to be a directory; the file written
\* replaces a file of the same name.
FileOk ==
    /\ pc = "loop"
    /\ outKind = "dir"
    /\ LET filename == image_files[idx]
           output_name == OutputName(filename, preserve_format)
       IN /\ outFiles' = outFiles \cup {output_name}
          /\ successful' = successful + 1
          /\ processed_files' = ProcessedAppend(processed_files, filename, output_name)
          /\ events' = Append(events, [file |-> filename, error |-> ""])
    /\ pc' = PcAfterSuccess(idx, Len(image_files))
    /\ idx' = idx + 1
    /\ UNCHANGED <<inKind, dirEntries, outputArg, preserve_format, outKind,
                   summary, summaryWrites, output_folder, image_files, failed,
                   failed_files, result, exitCode, unhandled>>
    /\ UNCHANGED singleVars

\* Lines 65-84, 90-93: one iteration in which Image.open or remove raises,
\* before anything is written.
FileOpenFails ==
    /\ pc = "loop"
    /\ LET filename == image_files[idx]
       IN /\ failed' = failed + 1
          /\ failed_files' = FailedAppend(failed_files, filename, OpenError)
          /\ events' = Append(events, [file |-> filename, error |-> OpenError])
    /\ pc' = PcAfterFailure(idx, Len(image_files))
    /\ idx' = IdxAfterFailure(idx)
    /\ UNCHANGED <<inKind, dirEntries, outputArg, preserve_format, fsVars,
                   output_folder, image_files, successful, processed_files,
                   result, exitCode, unhandled>>
    /\ UNCHANGED singleVars

\* Lines 65-84, 90-93: one iteration in which save raises.  With the output
\* path a directory the failed save may leave a partial file behind (PIL
\* removes it in some versions only); with the output path a regular file
\* the save always raises and writes nothing.
FileSaveFails ==
    /\ pc = "loop"
    /\ LET filename == image_files[idx]
           output_name == OutputName(filename, preserve_format)
       IN /\ \E leaves \in BOOLEAN :
                outFiles' = IF leaves /\ outKind = "dir"
                            THEN outFiles \cup {output_name}
                            ELSE outFiles
          /\ failed' = failed + 1
          /\ failed_files' = FailedAppend(failed_files, filename, SaveError)
          /\ events' = Append(events, [file |-> filename, error |-> SaveError])
    /\ pc' = PcAfterFailure(idx, Len(image_files))
    /\ idx' = IdxAfterFailure(idx)
    /\ UNCHANGED <<inKind, dirEntries, outputArg, preserve_format, outKind,
                   summary, summaryWrites, output_folder, image_files,
                   successful, processed_files, result, exitCode, unhandled>>
    /\ UNCHANGED singleVars

\* Lines 96-115: the summary is written and returned.  open(..., 'w') raises
\* when the output path is not a directory, and may raise when it is; the
\* exception is not caught in process_batch.
WriteSummary ==
    /\ pc = "summary"
    /\ \E ok \in BOOLEAN :
          IF ok /\ outKind = "dir"
          THEN /\ summary' = Metadata
               /\ summaryWrites' = summaryWrites + 1
               /\ result' = Metadata
               /\ pc' = "returned"
          ELSE /\ pc' = "raised"
               /\ UNCHANGED <<summary, summaryWrites, result>>
    /\ UNCHANGED <<inKind, dirEntries, outputArg, preserve_format, outKind,
                   outFiles, output_folder, image_files, idx, successful,
                   failed, processed_files, failed_files, events, exitCode,
                   unhandled>>
    /\ UNCHANGED singleVars

\* Lines 118-131: sys.exit(0 if result.get('success') else 1).
MainExit ==
    /\ pc = "returned"
    /\ exitCode' = IF Get(result, "success", FALSE) THEN 0 ELSE 1
    /\ pc' = "exited"
    /\ UNCHANGED <<inKind, dirEntries, outputArg, preserve_format, fsVars,
                   output_folder, image_files, idx, successful, failed,
                   processed_files, failed_files, events, result, unhandled>>
    /\ UNCHANGED singleVars

\* Line 122: nothing around the call catches what process_batch raises; the
\* interpreter prints the traceback and ends with status 1.
MainUnhandled ==
    /\ pc = "raised"
    /\ unhandled' = TRUE
    /\ exitCode' = 1
    /\ pc' = "exited"
    /\ UNCHANGED <<inKind, dirEntries, outputArg, preserve_format, fsVars,
                   output_folder, image_files, idx, successful, failed,
                   processed_files, failed_files, events, result>>
    /\ UNCHANGED singleVars

Next ==
    \/ Validate
    \/ MakeOutput
    \/ ListImages
    \/ FileOk
    \/ FileOpenFails
    \/ FileSaveFails
    \/ WriteSummary
    \/ MainExit
    \/ MainUnhandled

Spec == Init /\ [][Next]_vars

\* ============================================================= single.py

NameNewPng == <<"n", "e", "w">> \o ExtPng
NameOutPng == <<"o">> \o ExtPng

\* The input_path arguments tried.
InputPaths == {NameNewPng, NameAJpgUpper}

\* The output_path arguments tried: None, or a name.
OutputPathArgs == {<<>>, NameOutPng}

\* datetime.now(): the wall clock may stand still or be set back between runs.
Timestamps == 0..MaxClock

\* Path(p).stem for a name without separators: the text before the last
\* dot, when that dot is neither the first nor the last character.
PathStem(p) ==
    LET d == LastDot(p)
    IN IF d > 1 /\ d < Len(p) THEN SubSeq(p, 1, d - 1) ELSE p

\* Lines 44-50: the file written in nobdg-images.
SingleOutputName(input_path, output_path) ==
    IF output_path = <<>>
    THEN PathStem(input_path) \o <<"_", "n", "o", "b", "g", "d">> \o ExtPng
    ELSE output_path

\* Lines 74-83; image_size is the tuple PIL returns.
SingleMetadata(ts, input_path, output_path, preserve) ==
    [timestamp |-> ts,
     input_file |-> input_path,
     output_file |-> SingleOutputName(input_path, output_path),
     output_folder |-> "nobdg-images",
     image_size |-> <<"tuple", 4, 3>>,
     preserve_format |-> preserve,
     success |-> TRUE]

\* json.dump of one entry: a tuple is written as a list, a list stays one.
JsonEntry(e) == [e EXCEPT !.image_size = <<"list", @[2], @[3]>>]

JsonEntries(es) == [i \in 1..Len(es) |-> JsonEntry(es[i])]

\* Lines 87-100, then json.dump: the log written after a run, from the log
\* json.load returned (NoLog when the file did not exist).
NoLog == [none |-> TRUE]

\* The log rewritten from scratch on every run.
UpdateLogOverwrite(existing, metadata) ==
    [output_folder |-> "nobdg-images",
     created |-> metadata.timestamp,
     last_updated |-> metadata.timestamp,
     processed_images |-> JsonEntries(<<metadata>>)]

UpdateLog(existing, metadata) ==
    IF existing = NoLog
    THEN [output_folder |-> "nobdg-images",
          created |-> metadata.timestamp,
          last_updated |-> metadata.timestamp,
          processed_images |-> JsonEntries(<<metadata>>)]
    ELSE LET withList == IF "processed_images" \in DOMAIN existing
                         THEN existing
                         ELSE [k \in DOMAIN existing \cup {"processed_images"} |->
                                  IF k = "processed_images" THEN <<>> ELSE existing[k]]
             appended == Append(withList.processed_images, metadata)
         IN [k \in DOMAIN withList \cup {"last_updated"} |->
                CASE k = "processed_images" -> JsonEntries(appended)
                  [] k = "last_updated" -> metadata.timestamp
                  [] OTHER -> withList[k]]

\* A log file some other tool left without the processed_images key.
ForeignLog == [output_folder |-> "nobdg-images"]

InitBatchIdle ==
    /\ inKind = "absent"
    /\ dirEntries = <<>>
    /\ outputArg = "None"
    /\ preserve_format = FALSE
    /\ outKind = "absent"
    /\ outFiles = {}
    /\ summary = NoSummary
    /\ summaryWrites = 0
    /\ pc = "idle"
    /\ output_folder = "None"
    /\ image_files = <<>>
    /\ idx = 1
    /\ successful = 0
    /\ failed = 0
    /\ processed_files = <<>>
    /\ failed_files = <<>>
    /\ events = <<>>
    /\ result = NoResult
    /\ exitCode = -1
    /\ unhandled = FALSE

\* The log file can exist only inside an existing nobdg-images directory.
InitSingle ==
    /\ InitBatchIdle
    /\ folderKind \in PathKinds
    /\ \/ logKind = "absent" /\ log = NoLog
       \/ folderKind = "dir" /\ logKind = "corrupt" /\ log = NoLog
       \/ folderKind = "dir" /\ logKind = "json" /\ log = ForeignLog
    /\ runs = 0
    /\ sresult = NoResult
    /\ sexit = -1

SingleFailure(msg) == [success |-> FALSE, error |-> msg]

\* Lines 35-37: the input file does not exist.
RunInputMissing ==
    /\ runs < MaxRuns
    /\ runs' = runs + 1
    /\ sresult' = SingleFailure("Input file not found")
    /\ sexit' = 1
    /\ UNCHANGED <<folderKind, logKind, log>>
    /\ UNCHANGED batchVars

\* Lines 41, 108-110: os.makedirs(exist_ok=True) raises when nobdg-images is
\* a regular file, and may raise when it has to create the directory.
RunMakedirsFails ==
    /\ runs < MaxRuns
    /\ folderKind # "dir"
    /\ runs' = runs + 1
    /\ sresult' = SingleFailure("cannot create nobdg-images")
    /\ sexit' = 1
    /\ UNCHANGED <<folderKind, logKind, log>>
    /\ UNCHANGED batchVars

\* Lines 55-69, 108-110: Image.open, remove or save raises; the folder was
\* created before.
RunImageFails ==
    /\ runs < MaxRuns
    /\ folderKind # "file"
    /\ \E err \in {OpenError, SaveError} :
          sresult' = SingleFailure(err)
    /\ runs' = runs + 1
    /\ folderKind' = "dir"
    /\ sexit' = 1
    /\ UNCHANGED <<logKind, log>>
    /\ UNCHANGED batchVars

\* Lines 87-89, 108-110: the image is saved, then json.load raises on a log
\* file that is not JSON.
RunLogUnreadable ==
    /\ runs < MaxRuns
    /\ folderKind = "dir"
    /\ logKind = "corrupt"
    /\ runs' = runs + 1
    /\ sresult' = SingleFailure("Expecting value")
    /\ sexit' = 1
    /\ UNCHANGED <<folderKind, logKind, log>>
    /\ UNCHANGED batchVars

\* Lines 102-103, 108-110: writing the log raises.  open(..., 'w') either
\* fails before it touches the file, or has truncated it when the write
\* fails.
RunLogWriteFails ==
    /\ runs < MaxRuns
    /\ folderKind # "file"
    /\ logKind # "corrupt"
    /\ \E truncated \in BOOLEAN :
          IF truncated
          THEN logKind' = "corrupt" /\ log' = NoLog
          ELSE UNCHANGED <<logKind, log>>
    /\ runs' = runs + 1
    /\ folderKind' = "dir"
    /\ sresult' = SingleFailure("No space left on device")
    /\ sexit' = 1
    /\ UNCHANGED batchVars

\* Lines 33-106: a run in which every call succeeds.
RunSucceeds ==
    /\ runs < MaxRuns
    /\ folderKind # "file"
    /\ logKind # "corrupt"
    /\ \E ts \in Timestamps, input_path \in InputPaths,
          output_path \in OutputPathArgs, preserve \in BOOLEAN :
          LET metadata == SingleMetadata(ts, input_path, output_path, preserve)
          IN /\ log' = UpdateLog(log, metadata)
             /\ sresult' = metadata
    /\ logKind' = "json"
    /\ folderKind' = "dir"
    /\ runs' = runs + 1
    /\ sexit' = 0
    /\ UNCHANGED batchVars

NextSingle ==
    \/ RunInputMissing
    \/ RunMakedirsFails
    \/ RunImageFails
    \/ RunLogUnreadable
    \/ RunLogWriteFails
    \/ RunSucceeds

SpecSingle == InitSingle /\ [][NextSingle]_vars

\* ================================================================ claims

\* Number of directory entries whose lower-cased name ends in a supported
\* extension.
NumMatching(entries) ==
    Cardinality({i \in 1..Len(entries) :
                    EndsWithAny(Lower(entries[i]), SUPPORTED_FORMATS)})

\* process_batch returned a value (the script may have exited since).
Returned == pc = "returned" \/ (pc = "exited" /\ ~unhandled)

\* process_batch returned the metadata built after the loop.
ReturnedMetadata == Returned /\ "total_images" \in DOMAIN result

NumFailures(ev) == Cardinality({i \in 1..Len(ev) : ev[i].error # ""})

NumSuccesses(ev) == Cardinality({i \in 1..Len(ev) : ev[i].error = ""})

\* C1: for an existing input directory with at least one supported file and
\* every pattern of per-file outcomes, the result has total_processed +
\* total_failed = total_images, and total_images is the number of entries
\* whose lower-cased name ends in a supported extension.
C1_CountsAddUp ==
    (Returned /\ inKind = "dir" /\ NumMatching(dirEntries) >= 1) =>
        /\ "total_images" \in DOMAIN result
        /\ result.total_processed + result.total_failed = result.total_images
        /\ result.total_images = NumMatching(dirEntries)

C1_Witness ==
    /\ ReturnedMetadata
    /\ NumMatching(dirEntries) = 3
    /\ \E i \in 1..Len(dirEntries) : dirEntries[i] = NameAJpgUpper
    /\ result.total_processed = 2
    /\ result.total_failed = 1

\* C2: a failure on one file does not abort the batch: when the loop has
\* ended every matching file was attempted, in particular those after a
\* failed one; each failed file is in failed_files with its name and error
\* text, is not in processed_files, and the counters count failures and
\* successes separately.
C2_FailureDoesNotAbort ==
    /\ pc \in {"loop", "summary"} =>
          /\ \A i \in 1..Len(events) :
                events[i].error # "" =>
                   /\ \E j \in 1..Len(failed_files) :
                         failed_files[j] = [file |-> events[i].file,
                                            error |-> events[i].error]
                   /\ \A j \in 1..Len(processed_files) :
                         processed_files[j].input # events[i].file
          /\ failed = NumFailures(events)
          /\ successful = NumSuccesses(events)
    /\ pc = "summary" =>
          /\ Len(events) = Len(image_files)
          /\ \A i \in 1..Len(image_files) : events[i].file = image_files[i]
    /\ ReturnedMetadata =>
          /\ result.total_failed = NumFailures(events)
          /\ result.total_processed = NumSuccesses(events)
          /\ Len(events) = result.total_images

C2_Witness ==
    /\ pc = "summary"
    /\ Len(events) = 3
    /\ events[1].error = OpenError
    /\ events[2].error = ""
    /\ events[3].error = SaveError

\* C3: once the loop has ended and process_batch returns, exactly one
\* batch_metadata.json has been written, whatever the number of failed
\* files, it is the value returned, and its success flag is true exactly
\* when the failed count is zero; no summary is written before the loop has
\* ended.
C3_OneSummary ==
    /\ summaryWrites <= 1
    /\ pc \in {"start", "mkout", "list", "loop", "summary"} => summaryWrites = 0
    /\ (Returned /\ Len(events) > 0) =>
          /\ summaryWrites = 1
          /\ summary = result
          /\ summary.total_failed = NumFailures(events)
          /\ summary.success = (NumFailures(events) = 0)

C3_Witness ==
    /\ Returned
    /\ Len(events) = 2
    /\ NumFailures(events) = 2
    /\ summaryWrites = 1
    /\ summary.success = FALSE

\* With a missing input directory a step leaves the file system as it was.
C4_MissingInputStep ==
    inKind = "absent" => UNCHANGED <<outKind, outFiles, summary, summaryWrites>>

\* With a missing input directory the call only validates and returns.
C4_MissingInputResult ==
    inKind = "absent" =>
        /\ pc \in {"start", "returned", "exited"}
        /\ ~unhandled
        /\ pc \in {"returned", "exited"} =>
              /\ result.success = FALSE
              /\ result.run_folder = "None"

\* C4: with an input directory that does not exist, no step of the call
\* changes the file system (no output directory, no file), with or without an
\* output_folder argument, and the call returns success false and
\* run_folder None.
C4_MissingInput == []C4_MissingInputResult /\ [][C4_MissingInputStep]_vars

C4_Witness ==
    /\ inKind = "absent"
    /\ pc = "returned"
    /\ outputArg = "out"
    /\ outKind = "absent"
    /\ result.run_folder = "None"

\* C5: with an existing input directory without a supported file, the call
\* returns a failure with processed = 0 and failed = 0 whose run_folder is
\* the output folder, and that path exists on disk at the return.
C5_NoImages ==
    (Returned /\ inKind = "dir" /\ NumMatching(dirEntries) = 0) =>
        /\ {"processed", "failed", "run_folder"} \subseteq DOMAIN result
        /\ result.success = FALSE
        /\ result.processed = 0
        /\ result.failed = 0
        /\ result.run_folder = OutputFolderOf(outputArg)
        /\ outKind # "absent"

C5_Witness ==
    /\ pc = "returned"
    /\ inKind = "dir"
    /\ Len(dirEntries) = 1
    /\ NumMatching(dirEntries) = 0
    /\ outputArg = "None"
    /\ result.run_folder = "batch_<timestamp>"
    /\ outKind = "dir"

IsPrefix(s, t) == Len(s) <= Len(t) /\ SubSeq(t, 1, Len(s)) = s

\* The files attempted are a prefix of the listing, one outcome each.
C9_State ==
    pc \in {"loop", "summary", "returned", "exited", "raised"} =>
        /\ IsPrefix([i \in 1..Len(events) |-> events[i].file], image_files)
        /\ pc = "loop" => idx = Len(events) + 1 /\ idx <= Len(image_files)
        /\ Len(processed_files) + Len(failed_files) = Len(events)
        /\ \A i \in 1..Len(events) :
              Cardinality({j \in 1..Len(processed_files) :
                              processed_files[j].input = events[i].file})
              + Cardinality({j \in 1..Len(failed_files) :
                                failed_files[j].file = events[i].file}) = 1

\* The outcome lists only grow at their ends.
C9_Step ==
    /\ IsPrefix(processed_files, processed_files')
    /\ IsPrefix(failed_files, failed_files')

\* C9: each matching file gets exactly one outcome, exactly once: the files
\* attempted so far are the first ones of the listing, in listing order, each
\* with one entry in exactly one of processed_files and failed_files, and a
\* recorded outcome is never changed or removed by a later step.
C9_OncePerFile == []C9_State /\ [][C9_Step]_vars

C9_Witness ==
    /\ pc = "summary"
    /\ Len(image_files) = 3
    /\ Len(processed_files) = 2
    /\ Len(failed_files) = 1
    /\ failed_files[1].file = image_files[2]

\* C10: in one run into an initially empty output folder the output names
\* recorded in processed_files are pairwise distinct, and without failed
\* saves the number of image files in the folder is total_processed.
C10_DistinctOutputs ==
    ReturnedMetadata =>
        /\ \A i, j \in 1..Len(result.processed_files) :
              i # j => result.processed_files[i].output
                          # result.processed_files[j].output
        /\ result.total_failed = 0 => Cardinality(outFiles) = result.total_processed

\* C7: every failure of a file-system or image operation ends in a
\* structured failure result or a non-zero exit status, and no exception
\* leaves the entry point unhandled.
C7_NoUnhandledException ==
    pc = "exited" =>
        /\ ~unhandled
        /\ result # NoResult
        /\ exitCode = 0 => Get(result, "success", FALSE)

\* A successful run: the call returned its metadata.
RunSucceeded == runs' = runs + 1 /\ Get(sresult', "success", FALSE)

\* processed_images of the log before the run, empty without log or key.
EntriesBefore ==
    IF logKind = "json" /\ "processed_images" \in DOMAIN log
    THEN log.processed_images
    ELSE <<>>

\* What a successful run does to the log.
C6_Step ==
    RunSucceeded =>
        /\ logKind' = "json"
        /\ log'.processed_images = Append(EntriesBefore, JsonEntry(sresult'))
        /\ log'.last_updated = sresult'.timestamp

====
